---- MODULE Spec2Model ----
(***************************************************************************)
(* Model of src/src/sym_metanet/engines/casadi.py: the METANET equation    *)
(* groups (links, origins, destinations) and the engine factory.           *)
(*                                                                         *)
(* Symbolic values are modelled by the exact rational number they denote   *)
(* after substitution: a pair <<numerator, denominator>> in lowest terms   *)
(* with a positive denominator.  Vectors are sequences of such pairs.      *)
(***************************************************************************)
EXTENDS Integers, Sequences, FiniteSets, TLC

VARIABLES pc, args, ret, w, q, k, engines, last, debug

vars == <<pc, args, ret, w, q, k, engines, last, debug>>

(* Python's None: an argument left at its default, a call that returned   *)
(* nothing.                                                                *)
None == "None"

----------------------------------------------------------------------------
(* Bounds of the model.                                                    *)

MaxD == 2
MaxRho == 4
MaxR2 == 2
MaxSeg == 3
MaxSteps == 3
MaxDims == 3
MaxEngines == 2

----------------------------------------------------------------------------
(* Exact arithmetic of the expressions the code builds.                    *)

Abs(x) == IF x < 0 THEN -x ELSE x

RECURSIVE GCD(_, _)
GCD(a, b) == IF b = 0 THEN a ELSE GCD(b, a % b)

Rat(n, d) ==
    LET s == IF d < 0 THEN -1 ELSE 1
        g == GCD(Abs(n), Abs(d))
    IN  <<(s * n) \div g, (s * d) \div g>>

Num(n) == <<n, 1>>

Add(a, b) == Rat(a[1] * b[2] + b[1] * a[2], a[2] * b[2])

Sub(a, b) == Rat(a[1] * b[2] - b[1] * a[2], a[2] * b[2])

Mul(a, b) == Rat(a[1] * b[1], a[2] * b[2])

Div(a, b) == Rat(a[1] * b[2], a[2] * b[1])

Le(a, b) == a[1] * b[2] <= b[1] * a[2]

Lt(a, b) == a[1] * b[2] < b[1] * a[2]

fmin(a, b) == IF Le(a, b) THEN a ELSE b

fmax(a, b) == IF Le(a, b) THEN b ELSE a

(* Values of the variables a specification does not use.                  *)
NoCall == pc = "idle" /\ args = None /\ ret = None

NoOrigin == w = None /\ q = None /\ k = 0

NoEngine == engines = <<>> /\ last = [op |-> "none"] /\ debug = TRUE

----------------------------------------------------------------------------
(* OriginsEngine                                                           *)

step_queue(w0, d, q0, T) == Add(w0, Mul(T, Sub(d, q0)))

get_ramp_flow_no_demand(d, w0, C, r, rho_max, rho_first, rho_crit, T, type) ==
    LET term3 == Div(Sub(rho_max, rho_first), Sub(rho_max, rho_crit))
    IN  IF type = "in"
        THEN Mul(C, fmin(r, term3))
        ELSE Mul(r, Mul(C, fmin(Num(1), term3)))

get_ramp_flow_swapped(d, w0, C, r, rho_max, rho_first, rho_crit, T, type) ==
    LET term1 == Add(d, Div(w0, T))
        term3 == Div(Sub(rho_max, rho_first), Sub(rho_max, rho_crit))
    IN  IF type = "out"
        THEN fmin(term1, Mul(C, fmin(r, term3)))
        ELSE Mul(r, fmin(term1, Mul(C, fmin(Num(1), term3))))

get_ramp_flow_flipped(d, w0, C, r, rho_max, rho_first, rho_crit, T, type) ==
    LET term1 == Add(d, Div(w0, T))
        term3 == Div(Sub(rho_first, rho_max), Sub(rho_max, rho_crit))
    IN  IF type = "in"
        THEN fmin(term1, Mul(C, fmin(r, term3)))
        ELSE Mul(r, fmin(term1, Mul(C, fmin(Num(1), term3))))

get_ramp_flow(d, w0, C, r, rho_max, rho_first, rho_crit, T, type) ==
    LET term1 == Add(d, Div(w0, T))
        term3 == Div(Sub(rho_max, rho_first), Sub(rho_max, rho_crit))
    IN  IF type = "in"
        THEN fmin(term1, Mul(C, fmin(r, term3)))
        ELSE Mul(r, fmin(term1, Mul(C, fmin(Num(1), term3))))

(* The call as a caller writes it: `type` may be omitted, and then takes  *)
(* the default of the signature.                                           *)
call_get_ramp_flow(a) ==
    get_ramp_flow(a.d, a.w, a.C, a.r, a.rho_max, a.rho_first, a.rho_crit,
                  a.T, IF a.type = None THEN "out" ELSE a.type)

(* Inputs of one get_ramp_flow call.  Demand, capacity and rho_first are   *)
(* unrestricted by the code, so negative demand or capacity and a density  *)
(* above rho_max are inputs; T and rho_max - rho_crit are kept non-zero.   *)
RampArgs ==
    [d : {Num(n) : n \in (-1)..MaxD},
     w : {Num(0), Num(1)},
     C : {Num(-1), Num(0), Num(1), Num(2)},
     r : {Rat(n, 2) : n \in 0..MaxR2},
     rho_max : {Num(2), Num(3)},
     rho_first : {Num(n) : n \in 0..MaxRho},
     rho_crit : {Num(1)},
     T : {Num(1), Num(2)},
     type : {"in", "out", None}]

InitRamp ==
    /\ pc = "call"
    /\ args \in RampArgs
    /\ ret = None
    /\ NoOrigin /\ NoEngine

RampFlow ==
    /\ pc = "call"
    /\ ret' = call_get_ramp_flow(args)
    /\ pc' = "done"
    /\ UNCHANGED <<args, w, q, k, engines, last, debug>>

NextRamp == RampFlow

SpecRamp == InitRamp /\ [][NextRamp]_vars

----------------------------------------------------------------------------
(* Claims about get_ramp_flow.                                             *)

CongestionTerm(a) == Div(Sub(a.rho_max, a.rho_first), Sub(a.rho_max, a.rho_crit))

DemandTerm(a) == Add(a.d, Div(a.w, a.T))

IsIn(a) == a.type = "in"

IsOut(a) == a.type \in {"out", None}

C1Pre == /\ pc = "done" /\ IsIn(args)
         /\ Lt(Num(0), args.T) /\ Lt(args.rho_crit, args.rho_max)

(* C1 as stated: with type='in', when r <= g the result is                 *)
(* r * min(d + w/T, C * min(1, g)), and when r > g it is                   *)
(* min(d + w/T, C * g), where g = (rho_max - rho_first)/(rho_max-rho_crit).*)
C1_Original ==
    C1Pre =>
        LET g == CongestionTerm(args) IN
        /\ Le(args.r, g) =>
             ret = Mul(args.r, fmin(DemandTerm(args), Mul(args.C, fmin(Num(1), g))))
        /\ Lt(g, args.r) => ret = fmin(DemandTerm(args), Mul(args.C, g))

(* C1 amended: with type='in', when r <= g the result is                   *)
(* min(d + w/T, C * r) (the rate competes inside the capacity term and     *)
(* does not scale the minimum); when r > g it is min(d + w/T, C * g).      *)
C1_Amended ==
    C1Pre =>
        LET g == CongestionTerm(args) IN
        /\ Le(args.r, g) => ret = fmin(DemandTerm(args), Mul(args.C, args.r))
        /\ Lt(g, args.r) => ret = fmin(DemandTerm(args), Mul(args.C, g))

C1_Witness ==
    /\ C1Pre
    /\ Lt(Num(0), args.r) /\ Lt(args.r, CongestionTerm(args))
    /\ Lt(Mul(args.C, args.r), DemandTerm(args))
    /\ ret = Mul(args.C, args.r)
    /\ Lt(Num(0), ret)

(* The flow the same call returns with another rate or another policy.   *)
FlowWith(a, r, type) ==
    get_ramp_flow(a.d, a.w, a.C, r, a.rho_max, a.rho_first, a.rho_crit, a.T, type)

Rates == {Rat(n, 2) : n \in 0..MaxR2}

(* C2 as stated: with type='out' (the default) the result is non-decreasing *)
(* in r for every choice of the other arguments, also with                 *)
(* rho_first > rho_max or d + w/T < 0.                                     *)
C2_Original ==
    (pc = "done" /\ IsOut(args)) =>
        \A r2 \in Rates :
            /\ Le(args.r, r2) => Le(ret, FlowWith(args, r2, "out"))
            /\ Le(r2, args.r) => Le(FlowWith(args, r2, "out"), ret)

MeteredNonNegative(a) ==
    /\ Le(Num(0), DemandTerm(a))
    /\ Le(Num(0), Mul(a.C, fmin(Num(1), CongestionTerm(a))))

(* C2 amended: with type='out' the result is non-decreasing in r whenever  *)
(* the metered quantity is non-negative, i.e. d + w/T >= 0 and             *)
(* C * min(1, g) >= 0 (T > 0, rho_max > rho_crit).                         *)
C2_Amended ==
    (pc = "done" /\ IsOut(args) /\ MeteredNonNegative(args)) =>
        \A r2 \in Rates :
            /\ Le(args.r, r2) => Le(ret, FlowWith(args, r2, "out"))
            /\ Le(r2, args.r) => Le(FlowWith(args, r2, "out"), ret)

C2_Witness ==
    /\ pc = "done" /\ args.type = None /\ MeteredNonNegative(args)
    /\ \E r2 \in Rates : Lt(args.r, r2) /\ Lt(ret, FlowWith(args, r2, "out"))

C8Pre ==
    /\ pc = "done"
    /\ Le(Num(0), args.r) /\ Lt(args.r, Num(1))
    /\ Le(Num(0), args.d) /\ Le(Num(0), args.w) /\ Le(Num(0), args.C)
    /\ Lt(Num(0), args.T) /\ Lt(args.rho_crit, args.rho_max)
    /\ Le(args.rho_first, args.rho_max)

(* C8 as stated: for r in [0,1) and non-negative d, w, C, T > 0,           *)
(* rho_crit < rho_max, rho_first <= rho_max, the 'in' flow is smaller than *)
(* or equal to the 'out' flow of the same arguments.                       *)
C8_Original ==
    C8Pre =>
        /\ IsIn(args) => Le(ret, FlowWith(args, args.r, "out"))
        /\ IsOut(args) => Le(FlowWith(args, args.r, "in"), ret)

(* C8 amended: under the same preconditions the 'in' flow is greater than  *)
(* or equal to the 'out' flow of the same arguments.                       *)
C8_Amended ==
    C8Pre =>
        /\ IsIn(args) => Le(FlowWith(args, args.r, "out"), ret)
        /\ IsOut(args) => Le(ret, FlowWith(args, args.r, "in"))

C8_Witness ==
    /\ C8Pre /\ IsIn(args)
    /\ Lt(Num(0), args.r)
    /\ Lt(FlowWith(args, args.r, "out"), ret)

----------------------------------------------------------------------------
(* DestinationsEngine                                                      *)

get_congested_downstream_density_reclamped(rho_last, rho_destination, rho_crit) ==
    fmin(fmax(rho_last, rho_destination), rho_crit)

get_congested_downstream_density(rho_last, rho_destination, rho_crit) ==
    fmax(fmin(rho_last, rho_crit), rho_destination)

Densities == {Num(5)} \cup {Num(10 * n) : n \in 1..(MaxRho + 1)}

DestArgs ==
    [rho_last : Densities, rho_destination : Densities, rho_crit : Densities]

InitDest ==
    /\ pc = "call"
    /\ args \in DestArgs
    /\ ret = None
    /\ NoOrigin /\ NoEngine

DestDensity ==
    /\ pc = "call"
    /\ ret' = get_congested_downstream_density(
                  args.rho_last, args.rho_destination, args.rho_crit)
    /\ pc' = "done"
    /\ UNCHANGED <<args, w, q, k, engines, last, debug>>

NextDest == DestDensity

SpecDest == InitDest /\ [][NextDest]_vars

DestExamples ==
    (args.rho_crit = Num(30) /\ args.rho_destination = Num(10)) =>
        /\ args.rho_last = Num(50) => ret = Num(30)
        /\ args.rho_last = Num(5) => ret = Num(10)
        /\ args.rho_last = Num(20) => ret = Num(20)

(* C3 as stated: the result is max(min(rho_last, rho_crit),                *)
(* rho_destination), never exceeds rho_crit and never falls below          *)
(* rho_destination, for all inputs, also when rho_destination > rho_crit.  *)
C3_Original ==
    pc = "done" =>
        /\ ret = fmax(fmin(args.rho_last, args.rho_crit), args.rho_destination)
        /\ Le(ret, args.rho_crit)
        /\ Le(args.rho_destination, ret)
        /\ DestExamples

(* C3 amended: the result is max(min(rho_last, rho_crit),                  *)
(* rho_destination) and never falls below rho_destination; it does not     *)
(* exceed rho_crit whenever rho_destination <= rho_crit, and equals        *)
(* rho_destination when rho_destination > rho_crit.                        *)
C3_Amended ==
    pc = "done" =>
        /\ ret = fmax(fmin(args.rho_last, args.rho_crit), args.rho_destination)
        /\ Le(args.rho_destination, ret)
        /\ Le(args.rho_destination, args.rho_crit) => Le(ret, args.rho_crit)
        /\ Lt(args.rho_crit, args.rho_destination) => ret = args.rho_destination
        /\ DestExamples

C3_Witness ==
    /\ pc = "done"
    /\ args.rho_crit = Num(30) /\ args.rho_destination = Num(10)
    /\ args.rho_last = Num(50) /\ ret = Num(30)

----------------------------------------------------------------------------
(* LinksEngine.step_density                                                *)
(* rho, q and q_up are vectors with one entry per segment; lanes, L and T  *)
(* are scalars, broadcast over the segments.                               *)

step_density_misgrouped(rho, q0, q_up, lanes, L, T) ==
    [i \in 1..Len(rho) |->
        Add(rho[i], Mul(Div(T, Div(lanes, L)), Sub(q_up[i], q0[i])))]

step_density(rho, q0, q_up, lanes, L, T) ==
    [i \in 1..Len(rho) |->
        Add(rho[i], Mul(Div(Div(T, lanes), L), Sub(q_up[i], q0[i])))]

Vectors(n, S) == [1..n -> S]

DensityArgs ==
    UNION {[rho : Vectors(n, {Num(1), Num(2)}),
            q : Vectors(n, {Num(0), Num(1), Num(2)}),
            q_up : Vectors(n, {Num(1), Rat(3, 2)}),
            lanes : {Num(1), Num(2), Num(3)},
            L : {Num(1), Num(3)},
            T : {Rat(1, 2), Num(2)}] : n \in 1..MaxSeg}

InitDensity ==
    /\ pc = "call"
    /\ args \in DensityArgs
    /\ ret = None
    /\ NoOrigin /\ NoEngine

StepDensity ==
    /\ pc = "call"
    /\ ret' = step_density(args.rho, args.q, args.q_up, args.lanes, args.L, args.T)
    /\ pc' = "done"
    /\ UNCHANGED <<args, w, q, k, engines, last, debug>>

NextDensity == StepDensity

SpecDensity == InitDensity /\ [][NextDensity]_vars

(* C9: for strictly positive lanes, L, T, every segment of step_density's  *)
(* result is rho + T/(lanes*L)*(q_up - q), so that                         *)
(* (rho_next - rho)*lanes*L = T*(q_up - q); the density is unchanged when  *)
(* q_up = q, rises when q_up > q and falls when q_up < q.                  *)
C9_Density ==
    (/\ pc = "done"
     /\ Lt(Num(0), args.lanes) /\ Lt(Num(0), args.L) /\ Lt(Num(0), args.T)) =>
        /\ Len(ret) = Len(args.rho)
        /\ \A i \in 1..Len(args.rho) :
              LET inflow == Sub(args.q_up[i], args.q[i]) IN
              /\ ret[i] = Add(args.rho[i],
                              Mul(Div(args.T, Mul(args.lanes, args.L)), inflow))
              /\ Mul(Mul(Sub(ret[i], args.rho[i]), args.lanes), args.L)
                    = Mul(args.T, inflow)
              /\ args.q_up[i] = args.q[i] => ret[i] = args.rho[i]
              /\ Lt(args.q[i], args.q_up[i]) => Lt(args.rho[i], ret[i])
              /\ Lt(args.q_up[i], args.q[i]) => Lt(ret[i], args.rho[i])

C9_Witness ==
    /\ pc = "done" /\ Len(args.rho) >= 2
    /\ args.L = Num(3) /\ args.lanes = Num(2)
    /\ \E i, j \in 1..Len(args.rho) :
          /\ Lt(args.rho[i], ret[i])
          /\ Lt(ret[j], args.rho[j])

----------------------------------------------------------------------------
(* LinksEngine.step_speed                                                  *)
(* v, v_up, rho, rho_down and Veq are vectors with one entry per segment   *)
(* (index 1 is the code's index 0, index Len(v) the code's index -1); the  *)
(* other arguments are scalars, the last five of them None when left out.  *)

(* v + relaxation + convection - anticipation                              *)
v_next_base(v, v_up, rho, rho_down, Veq, L, tau, eta, kappa, T) ==
    [i \in 1..Len(v) |->
        LET relaxation == Mul(Div(T, tau), Sub(Veq[i], v[i]))
            convection == Mul(Div(Mul(T, v[i]), L), Sub(v_up[i], v[i]))
            anticipation == Div(Mul(Div(Mul(eta, T), tau),
                                    Sub(rho_down[i], rho[i])),
                                Mul(L, Add(rho[i], kappa)))
        IN  Sub(Add(Add(v[i], relaxation), convection), anticipation)]

on_ramp_term(v, rho, lanes, L, kappa, T, q_ramp, delta) ==
    Div(Mul(Mul(Mul(delta, T), q_ramp), v[1]),
        Mul(Mul(L, lanes), Add(rho[1], kappa)))

lane_drop_term(v, rho, lanes, L, T, lanes_drop, phi, rho_crit) ==
    Div(Mul(Mul(Mul(Mul(phi, T), lanes_drop), rho[Len(rho)]),
            Mul(v[Len(v)], v[Len(v)])),
        Mul(Mul(L, lanes), rho_crit))

(* the second `if` indented under the first                                *)
step_speed_nested(v, v_up, rho, rho_down, Veq, lanes, L, tau, eta, kappa, T, q_ramp, delta, lanes_drop, phi, rho_crit) ==
    LET v0 == v_next_base(v, v_up, rho, rho_down, Veq, L, tau, eta, kappa, T)
        v1 == [v0 EXCEPT ![1] =
                 Sub(@, on_ramp_term(v, rho, lanes, L, kappa, T, q_ramp, delta))]
        v2 == [v1 EXCEPT ![Len(v)] =
                 Sub(@, lane_drop_term(v, rho, lanes, L, T, lanes_drop, phi, rho_crit))]
    IN  IF q_ramp # None /\ delta # None
        THEN IF lanes_drop # None /\ phi # None /\ rho_crit # None
             THEN v2 ELSE v1
        ELSE v0

(* the on-ramp term subtracted from every segment                          *)
step_speed_all_segments(v, v_up, rho, rho_down, Veq, lanes, L, tau, eta, kappa, T, q_ramp, delta, lanes_drop, phi, rho_crit) ==
    LET v0 == v_next_base(v, v_up, rho, rho_down, Veq, L, tau, eta, kappa, T)
        v1 == IF q_ramp # None /\ delta # None
              THEN [i \in 1..Len(v) |->
                      Sub(v0[i], on_ramp_term(v, rho, lanes, L, kappa, T,
                                              q_ramp, delta))]
              ELSE v0
        v2 == IF lanes_drop # None /\ phi # None /\ rho_crit # None
              THEN [v1 EXCEPT ![Len(v)] =
                      Sub(@, lane_drop_term(v, rho, lanes, L, T,
                                            lanes_drop, phi, rho_crit))]
              ELSE v1
    IN  v2

step_speed(v, v_up, rho, rho_down, Veq, lanes, L, tau, eta, kappa, T, q_ramp, delta, lanes_drop, phi, rho_crit) ==
    LET v0 == v_next_base(v, v_up, rho, rho_down, Veq, L, tau, eta, kappa, T)
        v1 == IF q_ramp # None /\ delta # None
              THEN [v0 EXCEPT ![1] =
                      Sub(@, on_ramp_term(v, rho, lanes, L, kappa, T,
                                          q_ramp, delta))]
              ELSE v0
        v2 == IF lanes_drop # None /\ phi # None /\ rho_crit # None
              THEN [v1 EXCEPT ![Len(v)] =
                      Sub(@, lane_drop_term(v, rho, lanes, L, T,
                                            lanes_drop, phi, rho_crit))]
              ELSE v1
    IN  v2

call_step_speed(a) ==
    step_speed(a.v, a.v_up, a.rho, a.rho_down, a.Veq, a.lanes, a.L, a.tau,
               a.eta, a.kappa, a.T,
               a.q_ramp, a.delta, a.lanes_drop, a.phi, a.rho_crit)

Uniform(n, S) == {[i \in 1..n |-> x] : x \in S}

SpeedArgs ==
    UNION {[v : Vectors(n, {Num(1), Num(2)}),
            v_up : Uniform(n, {Num(1), Num(3)}),
            rho : Vectors(n, {Num(1), Num(2)}),
            rho_down : Uniform(n, {Num(0), Num(3)}),
            Veq : Uniform(n, {Num(2)}),
            lanes : {Num(2)}, L : {Num(1)}, tau : {Num(2)}, eta : {Num(3)},
            kappa : {Num(1)}, T : {Rat(1, 2)},
            q_ramp : {None, Num(0), Num(3)},
            delta : {None, Rat(1, 2)},
            lanes_drop : {None, Num(1)},
            phi : {None, Num(2)},
            rho_crit : {None, Num(3)}] : n \in 1..MaxSeg}

InitSpeed ==
    /\ pc = "call"
    /\ args \in SpeedArgs
    /\ ret = None
    /\ NoOrigin /\ NoEngine

StepSpeed ==
    /\ pc = "call"
    /\ ret' = call_step_speed(args)
    /\ pc' = "done"
    /\ UNCHANGED <<args, w, q, k, engines, last, debug>>

NextSpeed == StepSpeed

SpecSpeed == InitSpeed /\ [][NextSpeed]_vars

----------------------------------------------------------------------------
(* Claims about step_speed.                                                *)

RampComplete(a) == a.q_ramp # None /\ a.delta # None

DropComplete(a) == a.lanes_drop # None /\ a.phi # None /\ a.rho_crit # None

WithRamp(a, g) == [a EXCEPT !.q_ramp = g.q_ramp, !.delta = g.delta]

WithDrop(a, g) ==
    [a EXCEPT !.lanes_drop = g.lanes_drop, !.phi = g.phi, !.rho_crit = g.rho_crit]

NoRamp == [q_ramp |-> None, delta |-> None]

NoDrop == [lanes_drop |-> None, phi |-> None, rho_crit |-> None]

FullRamp == [q_ramp |-> Num(3), delta |-> Rat(1, 2)]

FullDrop == [lanes_drop |-> Num(1), phi |-> Num(2), rho_crit |-> Num(3)]

Diff(x, y) == [i \in 1..Len(x) |-> Sub(x[i], y[i])]

(* C4: a correction whose group of arguments is incomplete is skipped, the *)
(* result being that of the call with the group all None; and what one     *)
(* group subtracts from the result is the same whether the other group is  *)
(* supplied completely or not at all.                                      *)
C4_Independent ==
    pc = "done" =>
        /\ ~RampComplete(args) => ret = call_step_speed(WithRamp(args, NoRamp))
        /\ ~DropComplete(args) => ret = call_step_speed(WithDrop(args, NoDrop))
        /\ \A g \in {NoDrop, FullDrop} :
              Diff(call_step_speed(WithRamp(args, NoRamp)), ret)
                = Diff(call_step_speed(WithRamp(WithDrop(args, g), NoRamp)),
                       call_step_speed(WithDrop(args, g)))
        /\ \A g \in {NoRamp, FullRamp} :
              Diff(call_step_speed(WithDrop(args, NoDrop)), ret)
                = Diff(call_step_speed(WithDrop(WithRamp(args, g), NoDrop)),
                       call_step_speed(WithRamp(args, g)))

C4_Witness ==
    /\ pc = "done" /\ Len(args.v) >= 2
    /\ args.q_ramp = Num(3) /\ args.delta = None
    /\ DropComplete(args)
    /\ ret = call_step_speed(WithRamp(args, NoRamp))
    /\ ret # call_step_speed(WithDrop(args, NoDrop))

C5Pre == pc = "done" /\ RampComplete(args) /\ args.lanes_drop = None

AllNone(a) == WithDrop(WithRamp(a, NoRamp), NoDrop)

C5Lowering(a) ==
    Div(Mul(Mul(Mul(a.delta, a.T), a.q_ramp), a.v[1]),
        Mul(Mul(a.L, a.lanes), Add(a.rho[1], a.kappa)))

(* C5 as stated: with q_ramp and delta supplied and lanes_drop not,        *)
(* segment 0 is lowered by (delta*T*q_ramp*v[0])/(L*lanes*(rho[0]+kappa))  *)
(* relative to the all-None call, and the last segment and every other     *)
(* segment equal the all-None result, for every n >= 1.                    *)
C5_Original ==
    C5Pre =>
        LET base == call_step_speed(AllNone(args))
            n == Len(args.v)
        IN  /\ ret[1] = Sub(base[1], C5Lowering(args))
            /\ ret[n] = base[n]
            /\ \A i \in 2..n : ret[i] = base[i]

(* C5 amended: segment 0 is lowered by that amount and every segment other *)
(* than segment 0 equals the all-None result; the last segment is          *)
(* unaffected when n >= 2, and on a single-segment link the one segment is *)
(* the lowered one.                                                        *)
C5_Amended ==
    C5Pre =>
        LET base == call_step_speed(AllNone(args))
            n == Len(args.v)
        IN  /\ Len(ret) = n
            /\ ret[1] = Sub(base[1], C5Lowering(args))
            /\ \A i \in 2..n : ret[i] = base[i]

C5_Witness ==
    /\ C5Pre /\ Len(args.v) = MaxSeg
    /\ args.phi # None /\ args.rho_crit # None
    /\ Lt(ret[1], call_step_speed(AllNone(args))[1])
    /\ ret[MaxSeg] = call_step_speed(AllNone(args))[MaxSeg]

----------------------------------------------------------------------------
(* Engine                                                                  *)
(* engines is the sequence of the Engine objects constructed so far, each  *)
(* with its _csXX attribute; last records the latest call, the exception   *)
(* it raised (None if it returned) and the value it returned; debug is     *)
(* Python's __debug__, FALSE when the interpreter runs with -O and assert  *)
(* statements are not executed.                                            *)

(* the dict with both names bound to the SX class                          *)
csTYPES_same_class == <<[name |-> "SX", class |-> "casadi.SX"],
                        [name |-> "MX", class |-> "casadi.SX"]>>

(* the dict in insertion order                                             *)
csTYPES == <<[name |-> "SX", class |-> "casadi.SX"],
             [name |-> "MX", class |-> "casadi.MX"]>>

Keys(dict) == [i \in 1..Len(dict) |-> dict[i].name]

Contains(dict, key) == \E i \in 1..Len(dict) : dict[i].name = key

Lookup(dict, key) == dict[CHOOSE i \in 1..Len(dict) : dict[i].name = key].class

(* sep.join(names), as the sequence of its pieces                          *)
RECURSIVE Join(_, _)
Join(sep, names) ==
    IF Len(names) = 0 THEN <<>>
    ELSE IF Len(names) = 1 THEN names
    ELSE <<Head(names), sep>> \o Join(sep, Tail(names))

ValueError(sym_type) ==
    [kind |-> "ValueError",
     msg |-> <<"CasADi symbolic type must be in {">> \o Join(", ", Keys(csTYPES))
             \o <<"}; got ", sym_type, " instead.">>]

AssertionError ==
    [kind |-> "AssertionError",
     msg |-> <<"CasADi supports 1D and 2D variables only.">>]

(* The value csXX.sym(name, *shape) returns, cls being the class it is     *)
(* called on.                                                              *)
sym(cls, name, shape) == [class |-> cls, name |-> name, shape |-> shape]

var(self, name, shape) == sym(self._csXX, name, shape)

SymTypes == {"SX", "MX", "DX", "sx", None}

Names == {"x", "y"}

Shapes == UNION {[1..n -> 2..4] : n \in 0..MaxDims}

(* last.exc and last.ret hold at most one value: <<>> when the call raised *)
(* nothing, respectively returned nothing.                                 *)
InitEngine ==
    /\ engines = <<>>
    /\ last = [op |-> "none"]
    /\ debug \in BOOLEAN
    /\ NoCall /\ NoOrigin

(* Engine(sym_type), or Engine() when sym_type is None                     *)
EngineInit(given) ==
    LET sym_type == IF given = None THEN "SX" ELSE given IN
    /\ Len(engines) < MaxEngines
    /\ IF ~Contains(csTYPES, sym_type)
       THEN /\ last' = [op |-> "__init__", sym_type |-> given,
                        exc |-> <<ValueError(sym_type)>>, ret |-> <<>>]
            /\ UNCHANGED engines
       ELSE /\ engines' = Append(engines, [_csXX |-> Lookup(csTYPES, sym_type)])
            /\ last' = [op |-> "__init__", sym_type |-> given,
                        exc |-> <<>>, ret |-> <<Len(engines) + 1>>]
    /\ UNCHANGED <<pc, args, ret, w, q, k, debug>>

(* engines[e].var(name, shape)                                             *)
EngineVar(e, name, shape) ==
    /\ e \in 1..Len(engines)
    /\ IF debug /\ ~(Len(shape) <= 2)
       THEN last' = [op |-> "var", self |-> e, name |-> name, shape |-> shape,
                     exc |-> <<AssertionError>>, ret |-> <<>>]
       ELSE last' = [op |-> "var", self |-> e, name |-> name, shape |-> shape,
                     exc |-> <<>>, ret |-> <<var(engines[e], name, shape)>>]
    /\ UNCHANGED <<pc, args, ret, w, q, k, engines, debug>>

NextEngine ==
    \/ \E given \in SymTypes : EngineInit(given)
    \/ \E e \in 1..MaxEngines, name \in Names, shape \in Shapes :
          EngineVar(e, name, shape)

SpecEngine == InitEngine /\ [][NextEngine]_vars

----------------------------------------------------------------------------
(* Claims about Engine.                                                    *)

IsCall(op) == last.op = op

Raised == last.exc # <<>>

(* C6: var succeeds and returns a new variable for every shape of at most  *)
(* two dimensions, and for every longer shape fails with the error kind    *)
(* that engine construction uses for a bad name, returning no variable.    *)
C6_VarRejects ==
    IsCall("var") =>
        /\ Len(last.shape) <= 2 =>
              /\ ~Raised
              /\ Len(last.ret) = 1
              /\ last.ret[1].name = last.name /\ last.ret[1].shape = last.shape
        /\ Len(last.shape) > 2 =>
              /\ Raised
              /\ last.exc[1].kind = ValueError("DX").kind
              /\ last.ret = <<>>

Requested == IF last.sym_type = None THEN "SX" ELSE last.sym_type

Mentions(msg, name) == \E i \in 1..Len(msg) : msg[i] = name

Representation(name) ==
    IF name = "SX" THEN "casadi.SX" ELSE IF name = "MX" THEN "casadi.MX" ELSE None

C7_State ==
    /\ IsCall("__init__") =>
          /\ ~Raised <=> Requested \in {"SX", "MX"}
          /\ Raised =>
                /\ last.exc[1].kind = "ValueError"
                /\ \A name \in {"SX", "MX"} : Mentions(last.exc[1].msg, name)
                /\ Mentions(last.exc[1].msg, Requested)
                /\ last.ret = <<>>
          /\ ~Raised =>
                /\ last.ret = <<Len(engines)>>
                /\ \A name \in Names, shape \in Shapes :
                      var(engines[last.ret[1]], name, shape).class
                        = Representation(Requested)
    /\ \A e \in 1..Len(engines) :
          engines[e]._csXX \in {"casadi.SX", "casadi.MX"}
    /\ (IsCall("var") /\ ~Raised) =>
          last.ret[1].class = engines[last.self]._csXX

C7_Step ==
    /\ (last'.op = "__init__" /\ last'.exc # <<>>) => engines' = engines
    /\ (last'.op = "__init__" /\ last'.exc = <<>>) =>
          /\ Len(engines') = Len(engines) + 1
          /\ SubSeq(engines', 1, Len(engines)) = engines
    /\ last'.op = "var" => engines' = engines

(* C7: construction succeeds exactly for the names 'SX' and 'MX' ('SX'     *)
(* when none is given); otherwise it raises a ValueError whose message     *)
(* names every valid name and no engine comes to exist; a constructed      *)
(* engine's var produces variables of the class that was named.            *)
C7_Construction == []C7_State /\ [][C7_Step]_vars

C7_Witness ==
    /\ IsCall("var") /\ ~Raised
    /\ Len(engines) = 2
    /\ engines[1]._csXX = "casadi.SX" /\ engines[2]._csXX = "casadi.MX"
    /\ last.self = 2 /\ last.ret[1].class = "casadi.MX"

----------------
(* The origin's queue over a run: each step computes the ramp flow from    *)
(* the current queue and then updates the queue with it.                   *)

Congestion == {[rho_max |-> Num(3), rho_first |-> Num(0), rho_crit |-> Num(1)],
               [rho_max |-> Num(3), rho_first |-> Num(2), rho_crit |-> Num(1)],
               [rho_max |-> Num(3), rho_first |-> Num(4), rho_crit |-> Num(1)]}

InitQueue ==
    /\ w \in {Num(0), Rat(1, 2), Num(1)}
    /\ q = None
    /\ k = 0
    /\ NoCall /\ NoEngine

QueueStep(d, C, r, c, T, type) ==
    /\ k < MaxSteps
    /\ q' = get_ramp_flow(d, w, C, r, c.rho_max, c.rho_first, c.rho_crit, T, type)
    /\ w' = step_queue(w, d, q', T)
    /\ k' = k + 1
    /\ UNCHANGED <<pc, args, ret, engines, last, debug>>

NextQueue ==
    \E d \in {Num(0), Num(2)}, C \in {Num(0), Num(1), Num(3)},
       r \in {Num(0), Rat(1, 2), Num(1)}, c \in Congestion,
       T \in {Num(1), Num(2)}, type \in {"in", "out"} :
        QueueStep(d, C, r, c, T, type)

SpecQueue == InitQueue /\ [][NextQueue]_vars

(* C10: from w >= 0, under any sequence of steps with d >= 0, C >= 0,      *)
(* r in [0,1], T > 0 and rho_crit < rho_max, of either type, the queue     *)
(* stays >= 0 in every reachable state.                                    *)
C10_QueueNonNegative == Le(Num(0), w)

C10_Witness ==
    /\ k = MaxSteps
    /\ w = Num(0)
    /\ Lt(Num(0), q)

====
